---- MODULE Spec2Model ----
(***************************************************************************)
(* Model of the streaming request client of the benchmark,                 *)
(* src/benchmark/oairequester.py: OAIRequester.call, the backoff wrapper   *)
(* around OAIRequester._call, the 429 retry-after loop and the SSE reader  *)
(* OAIRequester._handle_response (specification Spec), and of the          *)
(* statistics aggregator, src/benchmark/statsaggregator.py, driven by the  *)
(* threads of _run_load in src/benchmark/loadcmd.py (specification         *)
(* SpecAgg).  The executor and the rate limiter that _run_load imports     *)
(* (asynchttpexecuter, ratelimiting) are described as the design document  *)
(* of the benchmark describes them (specifications SpecExec and SpecRate). *)
(* SpecBodies follows the bodies of successive requests from the messages  *)
(* generator to the wire, and SpecLive the one call while time advances.   *)
(*                                                                         *)
(* Time is counted in whole seconds.  Code between two await points runs   *)
(* without interruption (asyncio), so every action below is the code from  *)
(* one await point to the next.                                            *)
(***************************************************************************)
EXTENDS Integers, Sequences, FiniteSets, TLC

VARIABLES
    pc,        \* position of the one call: idle, post, sleep429, backoff, stream, done, raised
    now,       \* time.time()
    backoff,   \* OAIRequester.backoff
    stats,     \* the RequestStats record of the call
    body,      \* the request body handed to call(): its stream flag and the number of
               \* anti-cache prefixes prepended to its message contents
    response,  \* the local `response` of _call: its status (the headers are read
               \* in the step that receives them)
    posts,     \* history: the session.post() calls of the call: how many, when the
               \* first was issued, the last status any of them was answered
               \* with, and the latest one
    tries,     \* backoff wrapper: number of the current invocation of _call
    elapsed,   \* backoff wrapper: seconds since `start`, read before the invocation
    start,     \* backoff wrapper: time the wrapper was entered
    sleep,     \* duration of the pending asyncio.sleep
    lines,     \* number of body lines the call has read so far, over all its responses
    agg,       \* the _StatsAggregator: counters, start_time, terminate, the sample
               \* windows and raw_stat_dicts
    lock,      \* _StatsAggregator.lock: free, or the thread that holds it
    emitter,   \* the aggregator thread: its position in run() and the time its
               \* terminate.wait() times out
    main,      \* the main thread: its position in _run_load and the stop() calls made
    workers,   \* the request_func tasks: idle or inside requester.call(), and since when
    out,       \* history: what the aggregator has logged
    hist,      \* history: record_new_request and aggregate_request calls made
    exec,      \* the executor: its run-end condition, max concurrency, position in
               \* run(), completed count and, as history, the steps of its shutdown
    limiter,   \* the rate limiter: NoRateLimiter, or the token bucket with its rate,
               \* tokens and last refill, and, as history, the tokens taken from it
    source     \* the messages generator: prevent_server_caching, the cached message
               \* lists and, as history, the number of generate_messages() calls

reqVars == <<pc, backoff, stats, body, response, posts, tries, elapsed, start, sleep, lines>>
aggVars == <<agg, lock, emitter, main, workers, out, hist>>
execVars == <<exec, limiter>>
vars == <<pc, now, backoff, stats, body, response, posts, tries, elapsed, start, sleep, lines,
          agg, lock, emitter, main, workers, out, hist, exec, limiter, source>>

---------------------------------------------------------------------------
(* Bounds of the model *)

\* at most this many session.post() calls are explored in one call
MaxPosts == 3
\* at most this many body lines are read in one call
MaxLines == 2

(* Program constants *)

MAX_RETRY_SECONDS == 60

\* OAIRequester.debug, as the load command constructs the requester
debug == TRUE

\* Python's None for the optional numeric fields of RequestStats
None == -1

\* last_exception when no exception was recorded
NoException == "None"

---------------------------------------------------------------------------
(* The environment: what the server and the transport can do *)

\* seconds an awaited POST or an awaited body line can take
Latencies == {0, 30}

\* seconds until an awaited POST or an awaited read fails, or the body ends
ErrorLatencies == {0}

\* HTTP statuses a response can carry
Statuses == {200, 204, 429, 500}

NoHeader == [has |-> FALSE, val |-> <<>>]
Header(v) == [has |-> TRUE, val |-> v]

\* values of the retry-after-ms header: absent, unparseable, 30000 ms
RetryAfterHeaders ==
    { NoHeader, Header(<<"x">>), Header(<<"3", "0", "0", "0", "0">>) }

\* the service sends retry-after-ms with its 429 responses (the code reads the
\* header of no other response)
RetryAfterHeadersOf(status) == IF status = 429 THEN RetryAfterHeaders ELSE { NoHeader }

\* values of the utilization header: absent, empty, without %, not a number, 75%
UtilizationHeaders ==
    { NoHeader, Header(<<>>), Header(<<"7", "5">>), Header(<<"x", "%">>),
      Header(<<"7", "5", "%">>) }

\* exceptions session.post() can raise
PostErrors ==
    { "ClientConnectorError", "ClientConnectorDNSError", "ServerDisconnectedError",
      "TimeoutError" }

\* exceptions reading the body can raise
StreamErrors == { "ClientPayloadError", "TimeoutError" }

\* the lines a body can hold: a line without the data: prefix, a content delta,
\* a role-only delta, a data: line whose JSON does not parse, data: [DONE], and
\* a data: line that is not valid UTF-8
LineKinds == { "other", "content", "role", "malformed", "done", "badutf" }

---------------------------------------------------------------------------
(* Conversions *)

DigitChars == { "0", "1", "2", "3", "4", "5", "6", "7", "8", "9" }

DigitValue(c) ==
    CASE c = "0" -> 0 [] c = "1" -> 1 [] c = "2" -> 2 [] c = "3" -> 3 [] c = "4" -> 4
      [] c = "5" -> 5 [] c = "6" -> 6 [] c = "7" -> 7 [] c = "8" -> 8 [] c = "9" -> 9

\* whether float(s) succeeds, for the texts the model uses (digit strings)
FloatParses(s) == Len(s) > 0 /\ \A i \in 1..Len(s) : s[i] \in DigitChars

RECURSIVE FloatOf(_)
\* float(s) of a digit string
FloatOf(s) ==
    IF s = <<>> THEN 0
    ELSE 10 * FloatOf(SubSeq(s, 1, Len(s) - 1)) + DigitValue(s[Len(s)])

\* a retry-after sleep of no duration, whatever the header says
RetryAfterSeconds_NoSleep(ms) == 0

\* retry_after_ms/1000.0, the seconds asyncio.sleep is given
RetryAfterSeconds(ms) == ms \div 1000

---------------------------------------------------------------------------
(* Exceptions: the classes of aiohttp and of Python the code tells apart *)

ExceptionParent(cls) ==
    CASE cls = "ClientConnectorDNSError" -> "ClientConnectorError"
      [] cls = "ClientConnectorError"    -> "ClientError"
      [] cls = "ServerDisconnectedError" -> "ClientError"
      [] cls = "ClientPayloadError"      -> "ClientError"
      [] cls = "ClientResponseError"     -> "ClientError"
      [] cls = "ClientError"             -> "Exception"
      [] cls = "TimeoutError"            -> "Exception"
      [] cls = "UnicodeDecodeError"      -> "Exception"
      [] cls = "Exception"               -> "BaseException"
      [] OTHER                           -> "BaseException"

RECURSIVE IsInstance(_, _)
IsInstance(cls, base) ==
    IF cls = base THEN TRUE
    ELSE IF cls = "BaseException" THEN FALSE
    ELSE IsInstance(ExceptionParent(cls), base)

\* An exception value.  aiohttp's exceptions carry no `response` attribute:
\* ClientResponseError, which raise_for_status() raises, holds the status in
\* its own `status` attribute (with request_info, history, message, headers).
TransportError(cls) == [cls |-> cls, has_response |-> FALSE, status |-> 0]
ClientResponseError(status) ==
    [cls |-> "ClientResponseError", has_response |-> FALSE, status |-> status]

\* giveup without the branch for connection errors
terminal_http_code_NoConnectorBranch(e) == e.has_response /\ e.status # 429

\* the giveup predicate of the backoff wrapper
terminal_http_code(e) ==
    \/ e.has_response /\ e.status # 429
    \/ IsInstance(e.cls, "ClientConnectorError")
    \/ IsInstance(e.cls, "ClientConnectorDNSError")

\* the exceptions the wrapper retries on: backoff.on_exception(..., aiohttp.ClientError, ...)
RetriedByWrapper(e) == IsInstance(e.cls, "ClientError")

\* call() catching aiohttp.ClientError only
CaughtByCall_ClientErrorOnly(e) == IsInstance(e.cls, "ClientError")

\* the exceptions `except Exception` of call() catches
CaughtByCall(e) == IsInstance(e.cls, "Exception")

\* response.raise_for_status() raises for a status of 400 and above
RaisesForStatus(status) == status >= 400

---------------------------------------------------------------------------
(* RequestStats *)

RequestStats ==
    [ request_start_time |-> None,
      response_status_code |-> 0,
      response_time |-> None,
      first_token_time |-> None,
      response_end_time |-> None,
      generated_tokens |-> None,
      deployment_utilization |-> None,
      calls |-> 0,
      last_exception |-> NoException,
      output_content |-> <<>> ]

\* _read_utilization: the header is kept only when it ends in % and the rest parses
read_utilization(headers, s) ==
    LET h == headers.utilization IN
    IF ~h.has THEN s
    ELSE IF Len(h.val) = 0 THEN s
    ELSE IF h.val[Len(h.val)] # "%" THEN s
    ELSE LET num == SubSeq(h.val, 1, Len(h.val) - 1) IN
         IF FloatParses(num) THEN [s EXCEPT !.deployment_utilization = FloatOf(num)]
         ELSE s


---------------------------------------------------------------------------
(* The backoff wrapper: backoff.on_exception(backoff.expo, aiohttp.ClientError,
   jitter=backoff.full_jitter, max_time=MAX_RETRY_SECONDS, giveup=_terminal_http_code).
   It is applied to _call whatever OAIRequester.backoff is.  As in backoff 2.x,
   the wrapper reads the elapsed time before it invokes _call, and compares that
   reading with max_time when the invocation raises. *)

RECURSIVE Expo(_)
\* backoff.expo: the n-th value it yields, 1, 2, 4, ...
Expo(n) == IF n <= 1 THEN 1 ELSE 2 * Expo(n - 1)

Min(a, b) == IF a <= b THEN a ELSE b

\* backoff.full_jitter(value) draws from [0, value]; the model draws from these
JitterChoices == {0, 1}

\* the seconds the wrapper sleeps before invocation n + 1: the jittered value,
\* cut to what is left of max_time
NextWait(n, el) ==
    { Min(j, MAX_RETRY_SECONDS - el) : j \in { c \in JitterChoices : c <= Expo(n) } }

\* a wrapper without max_time: it gives up on a terminal exception only
WrapperGivesUp_NoMaxTime(e, el) == terminal_http_code(e)

\* the wrapper gives up on the exception of an invocation
WrapperGivesUp(e, el) == terminal_http_code(e) \/ el >= MAX_RETRY_SECONDS

---------------------------------------------------------------------------
(* _StatsAggregator after construction.  Its counters, windows, lock and list of
   raw records are class attributes; `terminate` is only annotated in the class
   body, so the attribute does not exist until run() assigns it. *)

\* the request_func tasks that can be in flight together (max_concurrency)
Workers == {1, 2}

\* _Samples.__init__
NoSamples == <<>>

\* the class attributes of _StatsAggregator
NewAggregator ==
    [ processing_requests_count |-> 0,
      total_requests_count |-> 0,
      total_failed_count |-> 0,
      throttled_count |-> 0,
      start_time |-> 0,
      terminate |-> "unset",
      request_timestamps |-> NoSamples,
      request_latency |-> NoSamples,
      call_tries |-> NoSamples,
      response_latencies |-> NoSamples,
      first_token_latencies |-> NoSamples,
      token_latencies |-> NoSamples,
      context_text_tokens |-> NoSamples,
      context_image_tokens |-> NoSamples,
      generated_tokens |-> NoSamples,
      utilizations |-> NoSamples,
      raw_stat_dicts |-> <<>> ]

\* nothing logged yet
NoOutput == [periodic |-> 0, final |-> 0, raw |-> 0, last |-> "none", final_at_raw |-> 0]

\* no request recorded or aggregated yet
NoHistory == [issued |-> 0, aggregated |-> 0, ok200 |-> 0, divisions |-> 0]

\* _run_load after it has built the aggregator, before aggregator.start()
AggInit ==
    /\ agg = NewAggregator
    /\ lock = "free"
    /\ emitter = [pc |-> "unstarted", wake |-> 0]
    /\ main = [pc |-> "created", stops |-> 0]
    /\ workers = [w \in Workers |-> [pc |-> "idle", start |-> None]]
    /\ out = NoOutput
    /\ hist = NoHistory

\* load(): rate_limiter = NoRateLimiter()
NoRateLimiter == [kind |-> "none", rate |-> 0, tokens |-> 0, last_refill |-> 0, taken |-> 0]

\* the executor _run_load builds: max_concurrency clients, the run-end condition
\* (None for a bound that is not set), not yet running
NewExecuter(clients, mode, requests, duration) ==
    [ max_concurrency |-> clients,
      mode |-> mode,
      max_requests |-> requests,
      max_duration |-> duration,
      pc |-> "idle",
      start |-> 0,
      completed |-> 0,
      wake |-> 0,
      signalled |-> FALSE,
      events |-> <<>> ]

\* the executor and limiter of a run with default arguments
ExecInit ==
    /\ exec = NewExecuter(Cardinality(Workers), "or", None, None)
    /\ limiter = NoRateLimiter


---------------------------------------------------------------------------
(* The messages generators.  A message content is a text, kept as the sequence
   of its parts, so that prepending a prefix is a concatenation. *)

\* str(time.time()) + " ", the prefix add_anticache_prefix prepends
SourcePrefix == "time "

\* f"ts={current_timestamp} rand={random_number}\n", the prefix _call prepends
ClientPrefix == "ts= rand=\n"

Message(role, text) == [role |-> role, content |-> <<text>>]

\* the message lists of a replay file: ReplayMessagesGenerator caches each
ReplayMessages ==
    << <<Message("system", "s1"), Message("user", "u1")>>, <<Message("user", "u2")>> >>

\* the one message list RandomMessagesGenerator caches, when max_tokens is given
RandomMessages == << <<Message("user", "words"), Message("user", "essay")>> >>

\* a generator after construction
MessagesGenerator(kind, prevent) ==
    [ kind |-> kind,
      prevent_server_caching |-> prevent,
      cached |-> IF kind = "replay" THEN ReplayMessages ELSE RandomMessages,
      calls |-> 0 ]

\* the generator of a run with --prevent-server-caching at its default, true
SourceInit == source = MessagesGenerator("replay", TRUE)

\* add_anticache_prefix: a deep copy of the messages, the first one prefixed
add_anticache_prefix(messages) ==
    [messages EXCEPT ![1].content = <<SourcePrefix>> \o @]

\* generate_messages for the cached list k: with prevent_server_caching a
\* prefixed copy (template None), else the cached list itself (template k)
generate_messages(src, k) ==
    IF src.prevent_server_caching
    THEN [messages |-> add_anticache_prefix(src.cached[k]), template |-> None]
    ELSE [messages |-> src.cached[k], template |-> k]

\* the messages of a body: its own list, or the cached list it shares
BodyMessages(b, src) ==
    IF b.template = None THEN b.messages ELSE src.cached[b.template]

\* _call, lines 137-143: every message content is prefixed in place
PrependPrefix(messages) ==
    [i \in DOMAIN messages |-> [messages[i] EXCEPT !.content = <<ClientPrefix>> \o @]]

---------------------------------------------------------------------------
(* Steps of call() and _call() *)

NoResponse == [status |-> 0]

\* a post the call has issued and not yet heard of
NewPost(t) ==
    [t |-> t, tr |-> None, status |-> 0, error |-> NoException, retry_after |-> None,
     content |-> 0]

\* no post
NoPost ==
    [t |-> None, tr |-> None, status |-> 0, error |-> NoException, retry_after |-> None,
     content |-> 0]

NoPosts == [count |-> 0, first |-> None, observed |-> 0, last |-> NoPost]

\* the history after a post issued at time t
Issue(ps, t) ==
    [count |-> ps.count + 1,
     first |-> IF ps.count = 0 THEN t ELSE ps.first,
     observed |-> ps.observed,
     last |-> NewPost(t)]

Goto(p, s, sl, ln, r, ps) ==
    /\ pc' = p
    /\ stats' = s
    /\ sleep' = sl
    /\ lines' = ln
    /\ response' = r
    /\ posts' = ps

\* call() returns the record
Return(s, r, ps) == Goto("done", s, 0, lines, r, ps)

\* an except clause that records the exception and stamps nothing
EndTimeOnException_NotStamped(s, t) == s

\* call(), the except clause: response_end_time is stamped unless already set
EndTimeOnException(s, t) ==
    IF s.response_end_time = None THEN [s EXCEPT !.response_end_time = t] ELSE s

\* an exception leaves _call and its wrapper: call() records what it catches
CallExcept(e, s, t, r, ps) ==
    IF CaughtByCall(e)
    THEN Return(EndTimeOnException([s EXCEPT !.last_exception = e.cls], t), r, ps)
    ELSE Goto("raised", s, 0, lines, r, ps)

\* an exception leaves _call: the wrapper sleeps and retries, or re-raises
WrapperOnException(e, s, t, r, ps) ==
    IF RetriedByWrapper(e) /\ ~WrapperGivesUp(e, elapsed)
    THEN \E w \in NextWait(tries, elapsed) : Goto("backoff", s, w, lines, r, ps)
    ELSE CallExcept(e, s, t, r, ps)

\* the condition of the while loop of _call
LoopContinues(s, t) == s.calls = 0 \/ t - s.request_start_time < MAX_RETRY_SECONDS

\* _call from its first line to the first session.post
EnterCall(s, t, ps) ==
    LET s1 == [s EXCEPT !.calls = @ + 1, !.request_start_time = t] IN
    IF LoopContinues(s1, t)
    THEN Goto("post", [s1 EXCEPT !.calls = @ + 1], 0, lines, NoResponse, Issue(ps, t))
    ELSE CallExcept([cls |-> "UnboundLocalError", has_response |-> FALSE, status |-> 0],
                    s1, t, NoResponse, ps)

\* _call after the while loop
AfterLoop(s, r, t, ps) ==
    LET s1 == IF r.status # 200 THEN [s EXCEPT !.response_end_time = t] ELSE s IN
    IF backoff /\ RaisesForStatus(r.status)
    THEN WrapperOnException(ClientResponseError(r.status), s1, t, r, ps)
    ELSE IF r.status = 200
    THEN Goto("stream", [s1 EXCEPT !.response_time = t], 0, lines, r, ps)
    ELSE Return(s1, r, ps)

\* honouring retry-after-ms whether or not backoff is enabled
HonoursRetryAfter_AlwaysOn(headers) == headers.retry_after_ms.has

\* the 429 branch that sleeps for retry-after-ms
HonoursRetryAfter(headers) == backoff /\ headers.retry_after_ms.has

\* the history after the latest post was answered (status, and the retry-after-ms
\* it carried when that parses) or raised (error)
Answered(ps, t, status, error, ra) ==
    [ps EXCEPT !.last = [@ EXCEPT !.tr = t, !.status = status, !.error = error,
                                  !.retry_after = ra],
               !.observed = IF error = NoException THEN status ELSE @]

\* the history after reading the body of the latest post raised
BodyRaised(ps, error) == [ps EXCEPT !.last.error = error]

\* the history after a delta with content was read from the body of the latest post
ContentRead(ps) == [ps EXCEPT !.last.content = @ + 1]

\* the requester before a call
CallInit ==
    /\ pc = "idle"
    /\ now = 0
    /\ backoff \in BOOLEAN
    /\ stats = RequestStats
    /\ body = [stream |-> FALSE, prefixes |-> 0]
    /\ response = NoResponse
    /\ posts = NoPosts
    /\ tries = 0
    /\ elapsed = 0
    /\ start = 0
    /\ sleep = 0
    /\ lines = 0

Init == CallInit /\ AggInit /\ ExecInit /\ SourceInit

\* call(session, body) up to the first post
Call ==
    /\ pc = "idle"
    /\ body' = [body EXCEPT !.stream = TRUE, !.prefixes = @ + 1]
    /\ start' = now
    /\ tries' = 1
    /\ elapsed' = 0
    /\ EnterCall(RequestStats, now, posts)
    /\ UNCHANGED <<now, backoff>>

\* session.post answers with a status and headers
PostResponse ==
    /\ pc = "post"
    /\ \E status \in Statuses, ut \in UtilizationHeaders, d \in Latencies :
       \E ra \in RetryAfterHeadersOf(status) :
         LET t == now + d
             r == [status |-> status]
             headers == [retry_after_ms |-> ra, utilization |-> ut]
             s1 == read_utilization(headers, [stats EXCEPT !.response_status_code = status])
             parses == FloatParses(ra.val)
             ps == Answered(posts, t, status, NoException,
                            IF ra.has /\ parses THEN FloatOf(ra.val) ELSE None)
         IN  /\ now' = t
             /\ IF status = 429 /\ HonoursRetryAfter(headers) /\ parses
                THEN Goto("sleep429", s1, RetryAfterSeconds(FloatOf(ra.val)), lines, r, ps)
                ELSE AfterLoop(s1, r, t, ps)
    /\ UNCHANGED <<backoff, body, tries, elapsed, start>>

\* session.post raises
PostError ==
    /\ pc = "post"
    /\ \E cls \in PostErrors, d \in ErrorLatencies :
         LET t == now + d IN
         /\ now' = t
         /\ WrapperOnException(TransportError(cls), stats, t, response,
                               Answered(posts, t, 0, cls, None))
    /\ UNCHANGED <<backoff, body, tries, elapsed, start>>

\* the retry-after sleep ends: the loop goes round or is left; a run of the
\* model issues at most cap POSTs
Sleep429Within(cap) ==
    /\ pc = "sleep429"
    /\ LET t == now + sleep IN
       /\ now' = t
       /\ IF LoopContinues(stats, t)
          THEN /\ posts.count < cap
               /\ Goto("post", [stats EXCEPT !.calls = @ + 1], 0, lines, response,
                       Issue(posts, t))
          ELSE AfterLoop(stats, response, t, posts)
    /\ UNCHANGED <<backoff, body, tries, elapsed, start>>

\* the retry-after sleep ends
Sleep429Done == Sleep429Within(MaxPosts)

\* the wrapper's sleep ends: it invokes _call again; a run of the model issues
\* at most cap POSTs
BackoffWithin(cap) ==
    /\ pc = "backoff"
    /\ posts.count < cap
    /\ LET t == now + sleep IN
       /\ now' = t
       /\ tries' = tries + 1
       /\ elapsed' = t - start
       /\ body' = [body EXCEPT !.prefixes = @ + 1]
       /\ EnterCall(stats, t, posts)
    /\ UNCHANGED <<backoff, start>>

\* the wrapper's sleep ends
BackoffRetry == BackoffWithin(MaxPosts)


---------------------------------------------------------------------------
(* _handle_response: the reader of the event stream *)

\* a line with the data: prefix stamps first_token_time and starts the count
StampFirstToken(s, t) ==
    [s EXCEPT !.first_token_time = IF @ = None THEN t ELSE @,
              !.generated_tokens = IF @ = None THEN 0 ELSE @]

\* a delta with a role: a new output element
AppendRole(s) ==
    [s EXCEPT !.output_content = Append(@, [role |-> "delta", content |-> 0])]

\* a delta with content that is appended and not counted
AppendContent_NotCounted(s) ==
    LET oc == IF s.output_content = <<>>
              THEN <<[role |-> "assistant", content |-> 0]>>
              ELSE s.output_content IN
    [s EXCEPT !.output_content = [oc EXCEPT ![Len(oc)].content = @ + 1]]

\* a delta with content: appended to the last output element, one more token
AppendContent(s) ==
    LET oc == IF s.output_content = <<>>
              THEN <<[role |-> "assistant", content |-> 0]>>
              ELSE s.output_content IN
    [s EXCEPT !.output_content = [oc EXCEPT ![Len(oc)].content = @ + 1],
              !.generated_tokens = @ + 1]

\* the stream is left: response_end_time is stamped and _call returns
EndOfStream(s, t) == [s EXCEPT !.response_end_time = t]

\* one line of the body arrives
StreamLine ==
    /\ pc = "stream"
    /\ lines < MaxLines
    /\ \E kind \in LineKinds, d \in Latencies :
         LET t == now + d
             s1 == StampFirstToken(stats, t)
             undecodable == [cls |-> "UnicodeDecodeError", has_response |-> FALSE, status |-> 0]
         IN  /\ now' = t
             /\ CASE kind = "other" -> Goto("stream", stats, 0, lines + 1, response, posts)
                  [] kind = "badutf" ->
                        WrapperOnException(undecodable, IF debug THEN stats ELSE s1, t,
                                           response, BodyRaised(posts, undecodable.cls))
                  [] kind = "done" -> Return(EndOfStream(s1, t), response, posts)
                  [] kind = "role" -> Goto("stream", AppendRole(s1), 0, lines + 1, response, posts)
                  [] kind = "content" ->
                        Goto("stream", AppendContent(s1), 0, lines + 1, response,
                             ContentRead(posts))
                  [] kind = "malformed" -> Goto("stream", s1, 0, lines + 1, response, posts)
    /\ UNCHANGED <<backoff, body, tries, elapsed, start>>

\* the body ends without a [DONE] line
StreamEnd ==
    /\ pc = "stream"
    /\ \E d \in ErrorLatencies :
         /\ now' = now + d
         /\ Return(EndOfStream(stats, now + d), response, posts)
    /\ UNCHANGED <<backoff, body, tries, elapsed, start>>

\* reading the body raises
StreamError ==
    /\ pc = "stream"
    /\ \E cls \in StreamErrors, d \in ErrorLatencies :
         /\ now' = now + d
         /\ WrapperOnException(TransportError(cls), stats, now + d, response,
                               BodyRaised(posts, cls))
    /\ UNCHANGED <<backoff, body, tries, elapsed, start>>

Next ==
    \/ Call /\ UNCHANGED <<aggVars, execVars, source>>
    \/ PostResponse /\ UNCHANGED <<aggVars, execVars, source>>
    \/ PostError /\ UNCHANGED <<aggVars, execVars, source>>
    \/ Sleep429Done /\ UNCHANGED <<aggVars, execVars, source>>
    \/ BackoffRetry /\ UNCHANGED <<aggVars, execVars, source>>
    \/ StreamLine /\ UNCHANGED <<aggVars, execVars, source>>
    \/ StreamEnd /\ UNCHANGED <<aggVars, execVars, source>>
    \/ StreamError /\ UNCHANGED <<aggVars, execVars, source>>

Spec == Init /\ [][Next]_vars


---------------------------------------------------------------------------
(* The statistics aggregator, src/benchmark/statsaggregator.py, as _run_load
   uses it.  Three threads touch it: the main thread (aggregator.start(),
   executer.run() with the request_func tasks of its event loop, then
   aggregator.stop()), and the aggregator's own thread (run()).  Everything
   the aggregator does under `with self.lock` is one step for the other
   thread, except _dump, which holds the lock from its first line to its
   logger.info and is modelled in two steps. *)

\* the clock is explored up to this second
MaxTime == 2
\* at most this many requests are started in a run
MaxRequests == 2
\* at most this many stop() calls are explored
MaxStops == 2
\* _StatsAggregator.window_duration (aggregation_duration), in seconds
window_duration == 1
\* _StatsAggregator.dump_duration
dump_duration == 1
\* _StatsAggregator.network_latency_adjustment
network_latency_adjustment == 0

\* the records requester.call() can hand to request_func for a request that was
\* started at second s and returned at second t: the shapes of the record that
\* the aggregator tells apart
Records(s, t) ==
    LET r == [RequestStats EXCEPT !.request_start_time = s, !.response_end_time = t,
                                  !.calls = 2]
        ok == [r EXCEPT !.response_status_code = 200, !.response_time = s]
    IN  { [ok EXCEPT !.first_token_time = s, !.generated_tokens = 2,
                     !.deployment_utilization = 75],
          [ok EXCEPT !.first_token_time = s, !.generated_tokens = 0],
          ok,
          [r EXCEPT !.response_status_code = 429, !.deployment_utilization = 75],
          [r EXCEPT !.response_status_code = 500] }

\* request_func: the token counts of the request are stored in the record
WithContextTokens(s, text, image) ==
    [ request_start_time |-> s.request_start_time,
      response_status_code |-> s.response_status_code,
      response_time |-> s.response_time,
      first_token_time |-> s.first_token_time,
      response_end_time |-> s.response_end_time,
      generated_tokens |-> s.generated_tokens,
      deployment_utilization |-> s.deployment_utilization,
      calls |-> s.calls,
      context_text_tokens |-> text,
      context_image_tokens |-> image ]

\* RequestStats.as_dict, the fields of the raw record that the aggregator's
\* effect depends on
as_dict(s) ==
    [ response_status_code |-> s.response_status_code,
      generated_tokens |-> s.generated_tokens ]

\* _Samples._append
append(samples, timestamp, value) == Append(samples, <<timestamp, value>>)

\* a trim that also drops the sample whose age is exactly duration
RECURSIVE trim_oldest_Inclusive(_, _, _)
trim_oldest_Inclusive(samples, t, duration) ==
    IF Len(samples) > 0 /\ t - samples[1][1] >= duration
    THEN trim_oldest_Inclusive(Tail(samples), t, duration)
    ELSE samples

\* _Samples._trim_oldest at time t: samples leave from the front only, and only
\* while the front one is older than duration
RECURSIVE trim_oldest(_, _, _)
trim_oldest(samples, t, duration) ==
    IF Len(samples) > 0 /\ t - samples[1][1] > duration
    THEN trim_oldest(Tail(samples), t, duration)
    ELSE samples

\* lines 162-170 of aggregate_request without the test for zero
TokenLatencyBranch_NoZeroTest(s) ==
    IF /\ s.generated_tokens # None
       /\ s.response_end_time # None
       /\ s.first_token_time # None
    THEN "divide"
    ELSE "skip"

\* lines 162-170 of aggregate_request: which branch a 200 record takes
TokenLatencyBranch(s) ==
    IF s.generated_tokens = 0 THEN "zero"
    ELSE IF /\ s.generated_tokens # None
            /\ s.response_end_time # None
            /\ s.first_token_time # None
    THEN "divide"
    ELSE "skip"

\* the division of line 169 raises ZeroDivisionError
DivisionRaises(s) == TokenLatencyBranch(s) = "divide" /\ s.generated_tokens = 0

\* aggregate_request, lines 141-160: the samples of a 200 record up to the
\* time to first token
LatencySamples(a, s) ==
    LET t0 == s.request_start_time
        adj == network_latency_adjustment
        a1 == IF s.response_end_time # None /\ t0 # None
              THEN [a EXCEPT !.request_latency = append(@, t0, s.response_end_time - t0 - adj)]
              ELSE a
        a2 == [a1 EXCEPT !.request_timestamps = append(@, t0, t0)]
        a3 == IF s.response_time # None /\ t0 # None
              THEN [a2 EXCEPT !.response_latencies = append(@, t0, s.response_time - t0 - adj)]
              ELSE a2
    IN  IF s.first_token_time # None /\ t0 # None
        THEN [a3 EXCEPT !.first_token_latencies =
                            append(@, t0, s.first_token_time - t0 - adj)]
        ELSE a3

\* aggregate_request, lines 162-170: the time between tokens, in whole seconds
TokenLatencySample(a, s) ==
    IF TokenLatencyBranch(s) = "divide" /\ ~DivisionRaises(s)
    THEN [a EXCEPT !.token_latencies =
              append(@, s.request_start_time,
                     (s.response_end_time - s.first_token_time - network_latency_adjustment)
                        \div s.generated_tokens)]
    ELSE a

\* token samples of every record, whatever its status
TokenSamples_EveryStatus(a, s) ==
    LET t0 == s.request_start_time
        a1 == [a EXCEPT !.context_text_tokens = append(@, t0, s.context_text_tokens),
                        !.context_image_tokens = append(@, t0, s.context_image_tokens)]
    IN  IF t0 = None THEN a
        ELSE IF s.generated_tokens # None
        THEN [a1 EXCEPT !.generated_tokens = append(@, t0, s.generated_tokens)]
        ELSE a1

\* aggregate_request, lines 172-176: the token samples of a 200 record
TokenSamples(a, s) ==
    LET t0 == s.request_start_time
        a1 == [a EXCEPT !.context_text_tokens = append(@, t0, s.context_text_tokens),
                        !.context_image_tokens = append(@, t0, s.context_image_tokens)]
    IN  IF s.response_status_code # 200 \/ t0 = None THEN a
        ELSE IF s.generated_tokens # None
        THEN [a1 EXCEPT !.generated_tokens = append(@, t0, s.generated_tokens)]
        ELSE a1

\* aggregate_request, lines 177-178
UtilizationSample(a, s) ==
    IF s.deployment_utilization # None /\ s.request_start_time # None
    THEN [a EXCEPT !.utilizations = append(@, s.request_start_time, s.deployment_utilization)]
    ELSE a

\* a 429 that is counted as throttled and not as failed
CountFailure_ThrottledNotFailed(a, s) ==
    IF s.response_status_code = 429
    THEN [a EXCEPT !.throttled_count = @ + 1]
    ELSE [a EXCEPT !.total_failed_count = @ + 1]

\* aggregate_request, lines 135-138
CountFailure(a, s) ==
    [a EXCEPT !.total_failed_count = @ + 1,
              !.throttled_count = IF s.response_status_code = 429 THEN @ + 1 ELSE @]

\* aggregate_request: the try body runs to its end, or to the statement that
\* raises; the except clause logs, and the raw record is appended either way
\* an aggregate_request that keeps the raw record of a 200 request only
aggregate_request_RawOf200Only(a, s) ==
    LET a1 == [a EXCEPT !.processing_requests_count = @ - 1,
                        !.total_requests_count = @ + 1]
        a2 == IF s.request_start_time # None
              THEN [a1 EXCEPT !.call_tries = append(@, s.request_start_time, s.calls)]
              ELSE a1
        a3 == IF s.response_status_code # 200
              THEN CountFailure(a2, s)
              ELSE TokenLatencySample(LatencySamples(a2, s), s)
        a4 == IF s.response_status_code = 200 /\ DivisionRaises(s)
              THEN a3
              ELSE UtilizationSample(TokenSamples(a3, s), s)
    IN  IF s.response_status_code = 200
        THEN [a4 EXCEPT !.raw_stat_dicts = Append(@, as_dict(s))]
        ELSE a4

aggregate_request(a, s) ==
    LET a1 == [a EXCEPT !.processing_requests_count = @ - 1,
                        !.total_requests_count = @ + 1]
        a2 == IF s.request_start_time # None
              THEN [a1 EXCEPT !.call_tries = append(@, s.request_start_time, s.calls)]
              ELSE a1
        a3 == IF s.response_status_code # 200
              THEN CountFailure(a2, s)
              ELSE TokenLatencySample(LatencySamples(a2, s), s)
        a4 == IF s.response_status_code = 200 /\ DivisionRaises(s)
              THEN a3
              ELSE UtilizationSample(TokenSamples(a3, s), s)
    IN  [a4 EXCEPT !.raw_stat_dicts = Append(@, as_dict(s))]

\* a request that is not counted as in flight
record_new_request_NotCounted(a) == a

\* record_new_request
record_new_request(a) == [a EXCEPT !.processing_requests_count = @ + 1]

\* _slide_window at time t
slide_window(a, t) ==
    [a EXCEPT !.call_tries = trim_oldest(@, t, window_duration),
              !.request_timestamps = trim_oldest(@, t, window_duration),
              !.response_latencies = trim_oldest(@, t, window_duration),
              !.first_token_latencies = trim_oldest(@, t, window_duration),
              !.token_latencies = trim_oldest(@, t, window_duration),
              !.context_text_tokens = trim_oldest(@, t, window_duration),
              !.context_image_tokens = trim_oldest(@, t, window_duration),
              !.generated_tokens = trim_oldest(@, t, window_duration),
              !.utilizations = trim_oldest(@, t, window_duration)]

\* _dump, lines 187-188; round() of a whole number of seconds is that number
dynamic_window(a, t) == Min(t - a.start_time, window_duration)

\* _dump, the rpm of lines 227 and 264: a float divided by the int 0 raises
\* ZeroDivisionError (the numpy sums of lines 194-196 give inf or nan instead)
DumpRaises(a, t) == Len(a.request_timestamps) > 0 /\ dynamic_window(a, t) = 0

\* the log after a snapshot line; `by` is the thread that wrote it
Snapshot(o, by) ==
    IF by = "emitter"
    THEN [o EXCEPT !.periodic = @ + 1, !.last = "snapshot"]
    ELSE [o EXCEPT !.final = @ + 1, !.last = "snapshot"]

\* dump_raw_call_stats: the log after the line with the raw records
RawCallStats(o) == [o EXCEPT !.raw = @ + 1, !.last = "raw", !.final_at_raw = o.final]

\* the history after one more record_new_request
Issued(h) == [h EXCEPT !.issued = @ + 1]

\* the history after aggregate_request(s)
Aggregated(h, s) ==
    [h EXCEPT !.aggregated = @ + 1,
              !.ok200 = IF s.response_status_code = 200 THEN @ + 1 ELSE @,
              !.divisions = IF TokenLatencyBranch(s) = "divide" /\ s.response_status_code = 200
                            THEN @ + 1 ELSE @]

\* aggregator.start(): the thread is created; run() begins when it is scheduled
StartAggregator ==
    /\ main.pc = "created"
    /\ main' = [main EXCEPT !.pc = "running"]
    /\ emitter' = [emitter EXCEPT !.pc = "started"]
    /\ UNCHANGED <<now, agg, lock, workers, out, hist>>

\* run(), lines 106-108, up to the first terminate.wait
Run ==
    /\ emitter.pc = "started"
    /\ agg' = [agg EXCEPT !.start_time = now, !.terminate = "clear"]
    /\ emitter' = [pc |-> "wait", wake |-> now + dump_duration]
    /\ UNCHANGED <<now, lock, main, workers, out, hist>>

\* a second passes; the aggregator thread is not late for its timeout
Tick ==
    /\ now < MaxTime
    /\ emitter.pc = "wait"
    /\ now < emitter.wake
    /\ now' = now + 1
    /\ UNCHANGED <<aggVars, execVars, source>>

\* terminate.wait(dump_duration) returns: True when the event is set, which ends
\* run(), and False at the timeout
Wake ==
    /\ emitter.pc = "wait"
    /\ IF agg.terminate = "set"
       THEN emitter' = [emitter EXCEPT !.pc = "exited"]
       ELSE /\ now >= emitter.wake
            /\ emitter' = [emitter EXCEPT !.pc = "woken"]
    /\ UNCHANGED <<now, agg, lock, main, workers, out, hist>>

\* _dump, line 186: the lock is taken
DumpBegin ==
    /\ emitter.pc = "woken"
    /\ lock = "free"
    /\ lock' = "emitter"
    /\ emitter' = [emitter EXCEPT !.pc = "dump"]
    /\ UNCHANGED <<now, agg, main, workers, out, hist>>

\* _dump, lines 187-264: the snapshot is computed, formatted and logged, and
\* then the lock is released.  After its wait the thread has run for at least
\* dump_duration, so its rpm division does not raise.
DumpEnd ==
    /\ emitter.pc = "dump"
    /\ ~DumpRaises(agg, now)
    /\ out' = Snapshot(out, "emitter")
    /\ lock' = "free"
    /\ emitter' = [emitter EXCEPT !.pc = "slide"]
    /\ UNCHANGED <<now, agg, main, workers, hist>>

\* _slide_window, and back to terminate.wait
SlideWindow ==
    /\ emitter.pc = "slide"
    /\ lock = "free"
    /\ agg' = slide_window(agg, now)
    /\ emitter' = [pc |-> "wait", wake |-> now + dump_duration]
    /\ UNCHANGED <<now, lock, main, workers, out, hist>>

\* request_func up to its await: record_new_request, then requester.call starts;
\* a new task takes the lowest free slot
WorkerStart(w) ==
    /\ main.pc = "running"
    /\ workers[w].pc = "idle"
    /\ \A v \in Workers : v < w => workers[v].pc # "idle"
    /\ hist.issued < MaxRequests
    /\ lock = "free"
    /\ agg' = record_new_request(agg)
    /\ hist' = Issued(hist)
    /\ workers' = [workers EXCEPT ![w] = [pc |-> "calling", start |-> now]]
    /\ UNCHANGED <<now, lock, emitter, main, out>>

\* request_func after its await: requester.call has returned a record, the token
\* counts of the request are stored in it and it is aggregated
WorkerComplete(w) ==
    /\ main.pc = "running"
    /\ workers[w].pc = "calling"
    /\ lock = "free"
    /\ \E r \in Records(workers[w].start, now) :
         LET s == WithContextTokens(r, 5, 0) IN
         /\ agg' = aggregate_request(agg, s)
         /\ hist' = Aggregated(hist, s)
    /\ workers' = [workers EXCEPT ![w] = [pc |-> "idle", start |-> None]]
    /\ UNCHANGED <<now, lock, emitter, main, out>>

\* executer.run() ends: the tasks still in flight are cancelled, the finish
\* callback (finish_run_func, which calls dump_raw_call_stats) is invoked and
\* run() returns
ExecuterFinish ==
    /\ main.pc = "running"
    /\ workers' = [w \in Workers |->
                     IF workers[w].pc = "calling"
                     THEN [workers[w] EXCEPT !.pc = "cancelled"]
                     ELSE workers[w]]
    /\ out' = RawCallStats(out)
    /\ main' = [main EXCEPT !.pc = "ran"]
    /\ UNCHANGED <<now, agg, lock, emitter, hist>>

\* stop(), line 113: terminate.set(); the attribute is missing, and the call
\* raises AttributeError, when run() has not yet assigned it
Stop ==
    /\ \/ main.pc = "ran"
       \/ main.pc = "stopped" /\ main.stops < MaxStops
    /\ IF agg.terminate = "unset"
       THEN /\ main' = [main EXCEPT !.pc = "raised"]
            /\ agg' = agg
       ELSE /\ main' = [main EXCEPT !.pc = "stop"]
            /\ agg' = [agg EXCEPT !.terminate = "set"]
    /\ UNCHANGED <<now, lock, emitter, workers, out, hist>>

\* stop(), line 115: _dump takes the lock
StopDumpBegin ==
    /\ main.pc = "stop"
    /\ lock = "free"
    /\ lock' = "main"
    /\ main' = [main EXCEPT !.pc = "dump"]
    /\ UNCHANGED <<now, agg, emitter, workers, out, hist>>

\* stop(), line 115: _dump logs the snapshot and releases the lock, or its rpm
\* division raises, which releases the lock and leaves stop() and _run_load
StopDumpEnd ==
    /\ main.pc = "dump"
    /\ lock' = "free"
    /\ IF DumpRaises(agg, now)
       THEN /\ main' = [main EXCEPT !.pc = "raised"]
            /\ out' = out
       ELSE /\ main' = [pc |-> "stopped", stops |-> main.stops + 1]
            /\ out' = Snapshot(out, "main")
    /\ UNCHANGED <<now, agg, emitter, workers, hist>>

NextAgg ==
    \/ StartAggregator /\ UNCHANGED <<reqVars, source, execVars>>
    \/ Run /\ UNCHANGED <<reqVars, source, execVars>>
    \/ Tick /\ UNCHANGED <<reqVars, source, execVars>>
    \/ Wake /\ UNCHANGED <<reqVars, source, execVars>>
    \/ DumpBegin /\ UNCHANGED <<reqVars, source, execVars>>
    \/ DumpEnd /\ UNCHANGED <<reqVars, source, execVars>>
    \/ SlideWindow /\ UNCHANGED <<reqVars, source, execVars>>
    \/ \E w \in Workers : WorkerStart(w) /\ UNCHANGED <<reqVars, source, execVars>>
    \/ \E w \in Workers : WorkerComplete(w) /\ UNCHANGED <<reqVars, source, execVars>>
    \/ ExecuterFinish /\ UNCHANGED <<reqVars, source, execVars>>
    \/ Stop /\ UNCHANGED <<reqVars, source, execVars>>
    \/ StopDumpBegin /\ UNCHANGED <<reqVars, source, execVars>>
    \/ StopDumpEnd /\ UNCHANGED <<reqVars, source, execVars>>

\* _run_load with the requester at rest: the records of its calls are inputs
InitAgg == Init /\ ~backoff

SpecAgg == InitAgg /\ [][NextAgg]_vars


---------------------------------------------------------------------------
(* The rate limiter.  load() builds RateLimiter(args.rate, 60) when a rate is
   given; the class itself is described by the design document as a token
   bucket: capacity = rpm tokens, refilled at rpm/60 tokens per second, and
   backoff() returning the time to wait.  Tokens are counted here in units of
   1/period of a token, so that one second refills `rate` units and one token
   is `period` units. *)

\* the period of RateLimiter(args.rate, 60), in seconds
period == 60

\* the rates (requests per minute) explored
Rates == {30, 60}

\* TokenBucket(rpm): the document does not say how full the bucket starts, so
\* it starts with `tokens` units
TokenBucket(rpm, tokens) ==
    [kind |-> "bucket", rate |-> rpm, tokens |-> tokens, last_refill |-> 0, taken |-> 0]

\* capacity = rpm tokens
capacity(l) == l.rate * period

\* tokens += elapsed_since_last_refill * refill_rate, capped at capacity
refill(l, t) ==
    [l EXCEPT !.tokens = Min(@ + (t - l.last_refill) * l.rate, capacity(l)),
              !.last_refill = t]

\* shortfall / refill_rate, in whole seconds (rounded up)
Shortfall(l) == ((period - l.tokens) + l.rate - 1) \div l.rate

\* a backoff() that admits without taking a token
backoff_TokenKept(l, t) ==
    IF l.kind = "none" THEN [limiter |-> l, delay |-> 0]
    ELSE LET r == refill(l, t) IN
         IF r.tokens >= period
         THEN [limiter |-> r, delay |-> 0]
         ELSE [limiter |-> r, delay |-> Shortfall(r)]

\* backoff() at time t: the limiter after the call and the delay returned.
\* NoRateLimiter always returns zero; the bucket refills, then takes one token
\* and returns zero, or returns the time until one token is there.
backoff_(l, t) ==
    IF l.kind = "none" THEN [limiter |-> l, delay |-> 0]
    ELSE LET r == refill(l, t) IN
         IF r.tokens >= period
         THEN [limiter |-> [r EXCEPT !.tokens = @ - period, !.taken = @ + 1], delay |-> 0]
         ELSE [limiter |-> r, delay |-> Shortfall(r)]

---------------------------------------------------------------------------
(* The executor.  _run_load builds AsyncHTTPExecuter(request_func, rate_limiter,
   max_concurrency, finish_run_func) and calls run(call_count, duration,
   run_end_condition_mode) between aggregator.start() and aggregator.stop().
   The steps of run() follow the design document: at most max_concurrency
   workers in flight, backoff() before each admission, the run-end condition of
   the mode, and on termination cancel, await, finish callback, return. *)

\* the bounds and modes explored; a step of the clock is the unit of max_duration
Modes == {"or", "and"}
RequestBounds == {None, 1, 2}
DurationBounds == {None, 1}

\* seconds since run() began
run_seconds(e, t) == t - e.start

\* the bound on requests is set and reached / the bound on duration is
RequestsReached(e) == e.max_requests # None /\ e.completed >= e.max_requests
DurationReached(e, t) == e.max_duration # None /\ run_seconds(e, t) >= e.max_duration

\* a run-end test that needs one request more than max_requests
RunEndMet_OneMore(e, t) ==
    IF e.mode = "or"
    THEN \/ e.max_requests # None /\ e.completed > e.max_requests
         \/ DurationReached(e, t)
    ELSE /\ e.max_requests # None \/ e.max_duration # None
         /\ e.max_requests # None => e.completed > e.max_requests
         /\ e.max_duration # None => DurationReached(e, t)

\* a run-end test that counts an unset bound as reached
RunEndMet_UnsetReached(e, t) ==
    IF e.mode = "or"
    THEN \/ e.max_requests = None \/ e.completed >= e.max_requests
         \/ e.max_duration = None \/ run_seconds(e, t) >= e.max_duration
    ELSE /\ e.max_requests # None \/ e.max_duration # None
         /\ e.max_requests # None => RequestsReached(e)
         /\ e.max_duration # None => DurationReached(e, t)

\* a run-end test whose "and" ends at the first bound reached
RunEndMet_EitherBound(e, t) ==
    RequestsReached(e) \/ DurationReached(e, t)

\* a run-end test whose "and" never counts an unset bound as reached
RunEndMet_UnsetNeverReached(e, t) ==
    IF e.mode = "or"
    THEN RequestsReached(e) \/ DurationReached(e, t)
    ELSE RequestsReached(e) /\ DurationReached(e, t)

\* the run-end condition: in "or" either bound that is set, in "and" every bound
\* that is set ("If only one arg is set, the run will end when it is reached")
RunEndMet(e, t) ==
    IF e.mode = "or"
    THEN RequestsReached(e) \/ DurationReached(e, t)
    ELSE /\ e.max_requests # None \/ e.max_duration # None
         /\ e.max_requests # None => RequestsReached(e)
         /\ e.max_duration # None => DurationReached(e, t)

\* the workers in flight: started and neither finished nor cancelled
InFlight(ws) == {w \in Workers : ws[w].pc = "calling"}

\* an admission test that lets one worker more than max_concurrency in
CanAdmit_OneMore(e, ws) == Cardinality(InFlight(ws)) <= e.max_concurrency

\* a new worker may start: fewer than max_concurrency are in flight
CanAdmit(e, ws) == Cardinality(InFlight(ws)) < e.max_concurrency

\* the run loop goes on: run() is in its loop or in the sleep of a backoff
Looping(e) == e.pc \in {"loop", "sleep"}

\* the record of the steps of the termination
Event(e, name) == [e EXCEPT !.events = Append(@, name)]

\* executer.run(call_count, duration, run_end_condition_mode) begins
RunExecuter ==
    /\ main.pc = "running"
    /\ exec.pc = "idle"
    /\ exec' = [exec EXCEPT !.pc = "loop", !.start = now]
    /\ UNCHANGED <<now, reqVars, source, aggVars, limiter>>

\* a worker that starts without a call of backoff()
Admit_NoBackoff(w) ==
    /\ exec.pc = "loop"
    /\ ~exec.signalled
    /\ ~RunEndMet(exec, now)
    /\ CanAdmit(exec, workers)
    /\ limiter' = limiter
    /\ WorkerStart(w)
    /\ UNCHANGED <<reqVars, source, exec>>

\* backoff() returns zero and a new worker starts request_func
Admit(w) ==
    /\ exec.pc = "loop"
    /\ ~exec.signalled
    /\ ~RunEndMet(exec, now)
    /\ CanAdmit(exec, workers)
    /\ backoff_(limiter, now).delay = 0
    /\ limiter' = backoff_(limiter, now).limiter
    /\ WorkerStart(w)
    /\ UNCHANGED <<reqVars, source, exec>>

\* backoff() returns a delay and the run loop sleeps for it
Throttle ==
    /\ exec.pc = "loop"
    /\ ~exec.signalled
    /\ ~RunEndMet(exec, now)
    /\ CanAdmit(exec, workers)
    /\ \E w \in Workers : workers[w].pc = "idle"
    /\ hist.issued < MaxRequests
    /\ backoff_(limiter, now).delay > 0
    /\ limiter' = backoff_(limiter, now).limiter
    /\ exec' = [exec EXCEPT !.pc = "sleep", !.wake = now + backoff_(limiter, now).delay]
    /\ UNCHANGED <<now, reqVars, source, aggVars>>

\* the sleep of a backoff is over and backoff() is tried again
SleepDone ==
    /\ exec.pc = "sleep"
    /\ now >= exec.wake
    /\ exec' = [exec EXCEPT !.pc = "loop"]
    /\ UNCHANGED <<now, reqVars, source, aggVars, limiter>>

\* a worker ends: request_func has aggregated its record and the run loop
\* counts the completion
Complete(w) ==
    /\ Looping(exec)
    /\ ~exec.signalled
    /\ ~RunEndMet(exec, now)
    /\ WorkerComplete(w)
    /\ exec' = [exec EXCEPT !.completed = @ + 1]
    /\ UNCHANGED <<reqVars, source, limiter>>

\* a step of the clock while the run loop goes on
Elapse ==
    /\ now < MaxTime
    /\ Looping(exec)
    /\ ~exec.signalled
    /\ ~RunEndMet(exec, now)
    /\ now' = now + 1
    /\ UNCHANGED <<reqVars, source, aggVars, execVars>>

\* the run is cancelled from outside
Signal ==
    /\ Looping(exec)
    /\ ~exec.signalled
    /\ exec' = [exec EXCEPT !.signalled = TRUE]
    /\ UNCHANGED <<now, reqVars, source, aggVars, limiter>>

\* the run loop sees the run-end condition, or the cancellation, and leaves
RunEnd ==
    /\ Looping(exec)
    /\ RunEndMet(exec, now) \/ exec.signalled
    /\ exec' = [exec EXCEPT !.pc = "cancel"]
    /\ UNCHANGED <<now, reqVars, source, aggVars, limiter>>

\* a termination that cancels no worker
CancelWorkers_NoneCancelled ==
    /\ exec.pc = "cancel"
    /\ exec' = Event([exec EXCEPT !.pc = "await"], "cancel")
    /\ UNCHANGED <<now, reqVars, source, aggVars, limiter>>

\* the outstanding workers are cancelled; a cancelled worker leaves its await
\* without a record
CancelWorkers ==
    /\ exec.pc = "cancel"
    /\ workers' = [w \in Workers |->
                     IF workers[w].pc = "calling"
                     THEN [workers[w] EXCEPT !.pc = "cancelled"]
                     ELSE workers[w]]
    /\ exec' = Event([exec EXCEPT !.pc = "await"], "cancel")
    /\ UNCHANGED <<now, reqVars, source, agg, lock, emitter, main, out, hist, limiter>>

\* the workers are awaited, for no longer than the grace period
AwaitWorkers ==
    /\ exec.pc = "await"
    /\ exec' = Event([exec EXCEPT !.pc = "callback"], "await")
    /\ UNCHANGED <<now, reqVars, source, aggVars, limiter>>

\* finish_run_func: dump_raw_call_stats
FinishCallback ==
    /\ exec.pc = "callback"
    /\ out' = RawCallStats(out)
    /\ exec' = Event([exec EXCEPT !.pc = "return"], "callback")
    /\ UNCHANGED <<now, reqVars, source, agg, lock, emitter, main, workers, hist, limiter>>

\* run() returns to _run_load
ExecuterReturn ==
    /\ exec.pc = "return"
    /\ main' = [main EXCEPT !.pc = "ran"]
    /\ exec' = Event([exec EXCEPT !.pc = "returned"], "return")
    /\ UNCHANGED <<now, reqVars, source, agg, lock, emitter, workers, out, hist, limiter>>

\* a run with any mode and bounds, without a rate limiter
NextExec ==
    \/ StartAggregator /\ UNCHANGED <<reqVars, source, execVars>>
    \/ RunExecuter
    \/ \E w \in Workers : Admit(w)
    \/ \E w \in Workers : Complete(w)
    \/ Elapse
    \/ Signal
    \/ RunEnd
    \/ CancelWorkers
    \/ AwaitWorkers
    \/ FinishCallback
    \/ ExecuterReturn

\* the configurations _run_load can be given: with "and" and no bound at all
\* the document says nothing about the end of the run
ExecConfigs ==
    { NewExecuter(c, m, r, d) :
        c \in 1..Cardinality(Workers), m \in Modes, r \in RequestBounds, d \in DurationBounds }
    \ { NewExecuter(c, "and", None, None) : c \in 1..Cardinality(Workers) }

InitExec ==
    /\ CallInit /\ ~backoff
    /\ AggInit
    /\ SourceInit
    /\ exec \in ExecConfigs
    /\ limiter = NoRateLimiter

SpecExec == InitExec /\ [][NextExec]_vars

\* a run without bounds behind a token bucket, with the aggregator thread
NextRate ==
    \/ StartAggregator /\ UNCHANGED <<reqVars, source, execVars>>
    \/ Run /\ UNCHANGED <<reqVars, source, execVars>>
    \/ Tick /\ UNCHANGED <<reqVars, source>>
    \/ Wake /\ UNCHANGED <<reqVars, source, execVars>>
    \/ DumpBegin /\ UNCHANGED <<reqVars, source, execVars>>
    \/ DumpEnd /\ UNCHANGED <<reqVars, source, execVars>>
    \/ SlideWindow /\ UNCHANGED <<reqVars, source, execVars>>
    \/ RunExecuter
    \/ \E w \in Workers : Admit(w)
    \/ Throttle
    \/ SleepDone
    \/ \E w \in Workers : Complete(w)

\* the buckets explored: empty or full at the start
Buckets == UNION { {TokenBucket(r, 0), TokenBucket(r, r * period)} : r \in Rates }

InitRate ==
    /\ CallInit /\ ~backoff
    /\ AggInit
    /\ SourceInit
    /\ exec = NewExecuter(Cardinality(Workers), "or", None, None)
    /\ limiter \in Buckets

SpecRate == InitRate /\ [][NextRate]_vars

---------------------------------------------------------------------------
(* The call while time advances.  While the call awaits a POST, a line or a
   sleep, time passes, and a POST is issued an interval at least after the one
   before it.  The retry budget then lets a call issue more POSTs than
   MaxPosts, so the retry steps are taken under a bound of their own. *)

\* the POSTs of one call in a run of SpecLive
LivePosts == 6

\* the least time between a POST and the next
Interval == 30

\* the call awaits an answer or the end of a sleep
Awaiting == pc \in {"post", "sleep429", "backoff"}

\* time passes while the call awaits, as little as the interval takes: the more
\* time passes, the fewer attempts the retry budget allows
Passes ==
    /\ Awaiting
    /\ now < posts.last.t + Interval
    /\ now' = now + Interval
    /\ UNCHANGED <<reqVars, aggVars, execVars, source>>

\* time has advanced when a POST follows another
Spaced == (posts.count > 0 /\ posts'.count > posts.count) => posts'.last.t >= posts.last.t + Interval

\* the time an answer or a line takes is the time that passed while the call
\* awaited it, and the service sends no utilization header
Arrives ==
    /\ now' = now
    /\ stats'.deployment_utilization = stats.deployment_utilization

NextLive ==
    \/ Call /\ UNCHANGED <<aggVars, execVars, source>>
    \/ PostResponse /\ Arrives /\ UNCHANGED <<aggVars, execVars, source>>
    \/ PostError /\ Arrives /\ UNCHANGED <<aggVars, execVars, source>>
    \/ Sleep429Within(LivePosts) /\ Spaced /\ UNCHANGED <<aggVars, execVars, source>>
    \/ BackoffWithin(LivePosts) /\ Spaced /\ UNCHANGED <<aggVars, execVars, source>>
    \/ StreamLine /\ Arrives /\ UNCHANGED <<aggVars, execVars, source>>
    \/ StreamEnd /\ Arrives /\ UNCHANGED <<aggVars, execVars, source>>
    \/ StreamError /\ Arrives /\ UNCHANGED <<aggVars, execVars, source>>
    \/ Passes

\* the event loop runs a step of the call that is ready, and time advances
SpecLive == Init /\ [][NextLive]_vars /\ WF_vars(NextLive)

---------------------------------------------------------------------------
(* The bodies of successive requests: request_func asks the request builder
   for a body, which holds the messages generate_messages returned, and hands
   it to call(); _call prefixes its messages before the POST, again at every
   invocation by the backoff wrapper.  Only the body, the position of the
   request and the generator change here. *)

\* at most this many bodies are built
MaxGenerated == 2

\* what stays as it is while bodies are built and sent
bodyFrame == <<now, backoff, stats, response, posts, tries, elapsed, start, sleep, lines,
               aggVars, execVars>>

\* the generator after the messages of a body were prefixed: a body that
\* shares a cached list has that list changed
PrefixedSource(b, src) ==
    IF b.template = None THEN src
    ELSE [src EXCEPT !.cached[b.template] = PrependPrefix(@)]

\* the body after its messages were prefixed
PrefixedBody(b) ==
    [b EXCEPT !.prefixes = @ + 1,
              !.messages = IF b.template = None THEN PrependPrefix(@) ELSE @]

\* request_func: request_builder.__next__() builds the body of the next request
RequestBuilderNext ==
    /\ pc \in {"idle", "done"}
    /\ source.calls < MaxGenerated
    /\ \E k \in DOMAIN source.cached :
         LET g == generate_messages(source, k) IN
         body' = [stream |-> FALSE, prefixes |-> 0, messages |-> g.messages,
                  template |-> g.template, produced |-> g.messages]
    /\ source' = [source EXCEPT !.calls = @ + 1]
    /\ pc' = "built"
    /\ UNCHANGED bodyFrame

\* call(session, body) and _call up to session.post
CallWithBody ==
    /\ pc = "built"
    /\ body' = [PrefixedBody(body) EXCEPT !.stream = TRUE]
    /\ source' = PrefixedSource(body, source)
    /\ pc' = "post"
    /\ UNCHANGED bodyFrame

\* the post or the stream raised a retryable error: the wrapper invokes _call
\* again, with the same body
WrapperReinvokes ==
    /\ pc = "post"
    /\ body.prefixes < MaxPosts
    /\ body' = PrefixedBody(body)
    /\ source' = PrefixedSource(body, source)
    /\ pc' = "post"
    /\ UNCHANGED bodyFrame

\* call() returns
CallReturns ==
    /\ pc = "post"
    /\ pc' = "done"
    /\ UNCHANGED <<body, source, bodyFrame>>

NextBodies ==
    \/ RequestBuilderNext
    \/ CallWithBody
    \/ WrapperReinvokes
    \/ CallReturns

\* the generators a run can have: RandomMessagesGenerator cannot be constructed
\* with prevent_server_caching false (its __init__ reads text_tokens, which is
\* only assigned under prevent_server_caching)
Generators ==
    { MessagesGenerator("replay", TRUE), MessagesGenerator("replay", FALSE),
      MessagesGenerator("random", TRUE) }

InitBodies ==
    /\ CallInit /\ ~backoff
    /\ AggInit
    /\ ExecInit
    /\ source \in Generators

SpecBodies == InitBodies /\ [][NextBodies]_vars

---------------------------------------------------------------------------
(* Properties of OAIRequester.call *)

Returned == pc = "done"

\* a further session.post is issued in this step
IssuesPost == posts'.count > posts.count

ConnectionErrors == { "ClientConnectorError", "ClientConnectorDNSError" }

\* C1: whatever the server and the transport do, call() never lets an exception
\* out; when the call ends because its last attempt raised (session.post or the
\* body reader raised, or raise_for_status raised on the final status with
\* backoff enabled) the returned record has last_exception set.
C1_CallAlwaysReturnsRecord ==
    /\ pc # "raised"
    /\ ( /\ Returned
         /\ \/ posts.last.error # NoException
            \/ backoff /\ posts.last.status >= 400
       ) => stats.last_exception # NoException

\* C1 witness: a post raised a non-aiohttp exception and the call returned the
\* record with it.
C1_Witness ==
    /\ Returned
    /\ posts.last.error = "TimeoutError"
    /\ stats.last_exception = "TimeoutError"

\* C2: a returned record of a failed request (final status other than 200, or
\* an exception recorded) has response_end_time set.
C2_FailedRecordHasEndTime ==
    ( /\ Returned
      /\ \/ stats.response_status_code # 200
         \/ stats.last_exception # NoException
    ) => stats.response_end_time # None

\* C2 witness: the body of a 200 response raised mid-stream, after a first
\* data line, and the record returned carries an end time.
C2_Witness ==
    /\ Returned
    /\ stats.response_status_code = 200
    /\ stats.first_token_time # None
    /\ stats.last_exception # NoException
    /\ stats.response_end_time # None

\* C3 (as claimed): when call() returns, stats.calls is the number of
\* session.post attempts of the call.
C3_CallsEqualsPosts == Returned => stats.calls = posts.count

\* C4: with backoff enabled, after a 429 whose retry-after-ms parses, the call
\* neither returns nor issues a post before that many milliseconds have passed
\* since the response; and a returned record carries the last status any
\* attempt of the call observed.
C4_RetryAfterHonoured ==
    /\ [][ ( /\ backoff
             /\ posts.last.status = 429
             /\ posts.last.retry_after # None
             /\ IssuesPost \/ (pc # "done" /\ pc' = "done")
           ) => 1000 * (now' - posts.last.tr) >= posts.last.retry_after ]_vars
    /\ [](Returned => stats.response_status_code = posts.observed)

\* C4 witness: the second post of one invocation of _call (so the first was a
\* 429 whose retry-after-ms was slept on) was answered 200 and the call returned.
C4_Witness ==
    /\ Returned
    /\ backoff
    /\ tries = 1
    /\ posts.count = 2
    /\ posts.last.t >= 30
    /\ stats.response_status_code = 200

\* C5: with backoff disabled a 429 ends the call at once, with or without a
\* retry-after-ms header: no post follows it, and the record has status 429,
\* response_end_time set and no exception; a 429 on the first attempt leaves
\* exactly one post.
C5_NoBackoff429Ends ==
    /\ [][ (~backoff /\ posts.last.status = 429) => ~IssuesPost ]_vars
    /\ []( (~backoff /\ posts.last.status = 429) =>
             /\ Returned
             /\ stats.response_status_code = 429
             /\ stats.response_end_time # None
             /\ stats.last_exception = NoException
             /\ (tries = 1 => posts.count = 1) )

\* C5 witness: backoff disabled, the only post answered 429 with a
\* retry-after-ms header, and the call has returned.
C5_Witness ==
    /\ Returned
    /\ ~backoff
    /\ posts.count = 1
    /\ posts.last.status = 429
    /\ posts.last.retry_after = 30000

\* C6 (as claimed): after a response whose status is neither 200 nor 429 no
\* further post is issued, with backoff enabled as well as disabled.
C6_OtherStatusTerminal ==
    [][ (posts.last.status \notin {0, 200, 429}) => ~IssuesPost ]_vars

\* C7: a connection-class or DNS-class error of session.post is never retried:
\* no post follows it, the call has returned, and the record has last_exception
\* and response_end_time set; when it hits the first attempt the call made
\* exactly one.
C7_ConnectionErrorTerminal ==
    /\ [][ (posts.last.error \in ConnectionErrors) => ~IssuesPost ]_vars
    /\ []( (posts.last.error \in ConnectionErrors) =>
             /\ Returned
             /\ stats.last_exception # NoException
             /\ stats.response_end_time # None
             /\ (tries = 1 /\ stats.response_status_code = 0 => posts.count = 1) )

\* C7 witness: the first post failed with a DNS error and the call returned.
C7_Witness ==
    /\ Returned
    /\ posts.count = 1
    /\ posts.last.error = "ClientConnectorDNSError"
    /\ stats.last_exception = "ClientConnectorDNSError"

\* C8 (as claimed): with backoff disabled no further post follows an attempt
\* that raised a transport error.
C8_NoBackoffNoRetry ==
    [][ (~backoff /\ posts.last.error # NoException) => ~IssuesPost ]_vars

\* C9 (as claimed): no post of a call is issued MAX_RETRY_SECONDS or more after
\* the first post of that call.
C9_OneRetryBudget ==
    posts.count >= 1 => posts.last.t - posts.first < MAX_RETRY_SECONDS

\* C10 (as claimed): a record returned with status 200, whose stream was read to
\* its end and stamped a first token, has request_start_time <= response_time <=
\* first_token_time <= response_end_time.
C10_TimesOrdered ==
    ( /\ Returned
      /\ stats.response_status_code = 200
      /\ stats.last_exception = NoException
      /\ stats.first_token_time # None
    ) => /\ stats.request_start_time <= stats.response_time
         /\ stats.response_time <= stats.first_token_time
         /\ stats.first_token_time <= stats.response_end_time

\* the record of a call that got a 200 and read its stream to the end
StreamCompleted ==
    /\ Returned
    /\ stats.response_status_code = 200
    /\ stats.last_exception = NoException

---------------------------------------------------------------------------
(* Properties of the aggregator *)

\* the step is one aggregate_request call
AggregatesRecord == hist'.aggregated = hist.aggregated + 1

\* the raw record of the latest aggregate_request call
LastRaw(a) == a.raw_stat_dicts[Len(a.raw_stat_dicts)]

\* the ten sample windows
WindowsOf(a) ==
    { a.request_timestamps, a.request_latency, a.call_tries, a.response_latencies,
      a.first_token_latencies, a.token_latencies, a.context_text_tokens,
      a.context_image_tokens, a.generated_tokens, a.utilizations }

\* C12: in every reachable aggregator state total_requests equals total_failed
\* plus the number of aggregated records with status 200, and throttled <=
\* total_failed <= total_requests; no step decreases any of the three counters.
C12_CountersConsistent ==
    /\ []( /\ agg.total_requests_count = agg.total_failed_count + hist.ok200
           /\ agg.throttled_count <= agg.total_failed_count
           /\ agg.total_failed_count <= agg.total_requests_count )
    /\ [][ /\ agg'.total_requests_count >= agg.total_requests_count
           /\ agg'.total_failed_count >= agg.total_failed_count
           /\ agg'.throttled_count >= agg.throttled_count ]_vars

C12_Witness ==
    /\ hist.ok200 >= 1
    /\ agg.throttled_count >= 1
    /\ agg.total_requests_count = 2

\* C13: in every reachable state processing_requests equals the number of
\* record_new_request calls minus the number of aggregate_request calls and is
\* not negative, however the workers and the periodic emitter interleave.
C13_ProcessingIsInFlight ==
    /\ agg.processing_requests_count = hist.issued - hist.aggregated
    /\ agg.processing_requests_count >= 0

C13_Witness ==
    /\ agg.processing_requests_count = 1
    /\ hist.aggregated = 1
    /\ emitter.pc = "dump"
    /\ \E w \in Workers : workers[w].pc = "calling"

\* C14: aggregate_request on a record whose status is not 200 leaves the
\* end-to-end, response-latency, first-token, per-token, context-token,
\* generated-token and request-timestamp windows unchanged; what it changes is
\* among the counters, the call-tries window, the utilization window and the
\* raw records.
C14_Non200LeavesLatencyWindows ==
    [][ (AggregatesRecord /\ LastRaw(agg').response_status_code # 200) =>
          /\ agg'.request_latency = agg.request_latency
          /\ agg'.response_latencies = agg.response_latencies
          /\ agg'.first_token_latencies = agg.first_token_latencies
          /\ agg'.token_latencies = agg.token_latencies
          /\ agg'.context_text_tokens = agg.context_text_tokens
          /\ agg'.context_image_tokens = agg.context_image_tokens
          /\ agg'.generated_tokens = agg.generated_tokens
          /\ agg'.request_timestamps = agg.request_timestamps
          /\ agg'.start_time = agg.start_time
          /\ agg'.terminate = agg.terminate
          /\ agg'.total_failed_count = agg.total_failed_count + 1
          /\ Len(agg'.call_tries) = Len(agg.call_tries) + 1
          /\ Len(agg'.raw_stat_dicts) = Len(agg.raw_stat_dicts) + 1 ]_vars

C14_Witness ==
    /\ Len(agg.raw_stat_dicts) = 2
    /\ LastRaw(agg).response_status_code = 429
    /\ Len(agg.request_latency) = 1
    /\ Len(agg.context_text_tokens) = 1
    /\ Len(agg.utilizations) = 2

\* C15 as stated: right after the trim of a tick every sample (t, v) kept in any
\* window has now - t <= window_duration.
C15_TrimLeavesFreshSamples ==
    [][ (emitter.pc = "slide" /\ emitter'.pc = "wait") =>
          \A w \in WindowsOf(agg') : \A i \in 1..Len(w) :
              now' - w[i][1] <= window_duration ]_vars

\* C16 as stated: in every window the timestamps are non-decreasing in sequence
\* order.
C16_WindowsSorted ==
    \A w \in WindowsOf(agg) : \A i \in 1..(Len(w) - 1) : w[i][1] <= w[i + 1][1]

\* C17 as stated: the stop() calls of a started aggregator emit one snapshot
\* between them, the second call emitting nothing.
C17_SecondStopEmitsNothing == out.final <= 1

\* C18: aggregate_request on a 200 record with generated_tokens == 0 appends no
\* per-token latency sample and divides nothing by generated_tokens, and appends
\* one context-text, one context-image and one generated-tokens sample (the
\* latter with value 0).
C18_ZeroTokensNoLatencySample ==
    [][ ( /\ AggregatesRecord
          /\ LastRaw(agg').response_status_code = 200
          /\ LastRaw(agg').generated_tokens = 0 ) =>
          /\ agg'.token_latencies = agg.token_latencies
          /\ hist'.divisions = hist.divisions
          /\ Len(agg'.context_text_tokens) = Len(agg.context_text_tokens) + 1
          /\ Len(agg'.context_image_tokens) = Len(agg.context_image_tokens) + 1
          /\ Len(agg'.generated_tokens) = Len(agg.generated_tokens) + 1
          /\ agg'.generated_tokens[Len(agg'.generated_tokens)][2] = 0 ]_vars

C18_Witness ==
    /\ Len(agg.raw_stat_dicts) >= 1
    /\ LastRaw(agg).response_status_code = 200
    /\ LastRaw(agg).generated_tokens = 0
    /\ agg.token_latencies = NoSamples
    /\ Len(agg.generated_tokens) >= 1
    /\ Len(agg.context_text_tokens) >= 1

\* C19 as stated: the periodic emitter has released the lock before it computes,
\* formats and logs the snapshot, so no worker waits for the lock meanwhile.
C19_EmitterFormatsUnlocked ==
    emitter.pc = "dump" => lock = "free"

\* C20 as stated: at the end of a run the final snapshot was logged before the
\* line with the raw call records, and that line is the last thing the
\* aggregator logged.
C20_RawRecordsLast ==
    main.pc = "stopped" => (out.last = "raw" /\ out.final_at_raw >= 1)

\* C29 as stated: every periodic tick trims every one of the ten sample windows,
\* the end-to-end latency window included.
C29_TickTrimsEveryWindow ==
    [][ (emitter.pc = "slide" /\ emitter'.pc = "wait") =>
          /\ agg'.request_timestamps = trim_oldest(agg.request_timestamps, now, window_duration)
          /\ agg'.request_latency = trim_oldest(agg.request_latency, now, window_duration)
          /\ agg'.response_latencies = trim_oldest(agg.response_latencies, now, window_duration)
          /\ agg'.first_token_latencies =
                 trim_oldest(agg.first_token_latencies, now, window_duration)
          /\ agg'.token_latencies = trim_oldest(agg.token_latencies, now, window_duration)
          /\ agg'.context_text_tokens = trim_oldest(agg.context_text_tokens, now, window_duration)
          /\ agg'.context_image_tokens =
                 trim_oldest(agg.context_image_tokens, now, window_duration)
          /\ agg'.generated_tokens = trim_oldest(agg.generated_tokens, now, window_duration)
          /\ agg'.utilizations = trim_oldest(agg.utilizations, now, window_duration)
          /\ agg'.call_tries = trim_oldest(agg.call_tries, now, window_duration) ]_vars

\* C30: _trim_oldest(D) at time now returns the window without some leading
\* samples, the rest in their order; every sample it drops has now - t > D, so
\* a sample with now - t <= D is never dropped, and an empty window stays empty.
C30_TrimDropsOnlyStaleFront ==
    \A w \in WindowsOf(agg) \cup {NoSamples} :
        LET kept == trim_oldest(w, now, window_duration)
            k == Len(w) - Len(kept)
        IN  /\ k >= 0
            /\ kept = SubSeq(w, k + 1, Len(w))
            /\ \A i \in 1..k : now - w[i][1] > window_duration
            /\ (w = NoSamples => kept = NoSamples)

C30_Witness ==
    \E w \in WindowsOf(agg) :
        LET kept == trim_oldest(w, now, window_duration) IN
        /\ Len(kept) >= 1
        /\ Len(kept) < Len(w)
        /\ now - kept[1][1] = window_duration

---------------------------------------------------------------------------
(* Properties of the rate limiter and of the executor *)

\* the tokens of the bucket after the refill of a backoff() at the present time
Refilled == Min(limiter.tokens + (now - limiter.last_refill) * limiter.rate,
                limiter.rate * period)

\* backoff() is called in this step: a worker is admitted or the loop sleeps
BackoffAdmits == hist'.issued = hist.issued + 1
BackoffDelays == exec.pc = "loop" /\ exec'.pc = "sleep"

\* C21: the tokens of the bucket stay between 0 and the capacity; backoff()
\* returns zero exactly when at least one token is there after the refill, and
\* then takes exactly one token; when it returns a positive delay it takes none
C21_TokenBucket ==
    [][ /\ 0 <= limiter.tokens /\ limiter.tokens <= limiter.rate * period
        /\ 0 <= limiter'.tokens /\ limiter'.tokens <= limiter.rate * period
        /\ BackoffAdmits => Refilled >= period /\ limiter'.tokens = Refilled - period
        /\ BackoffDelays => /\ Refilled < period
                            /\ limiter'.tokens = Refilled
                            /\ exec'.wake > now
        /\ limiter' # limiter => BackoffAdmits \/ BackoffDelays ]_vars

\* a token was taken from a bucket that had been empty, after a sleep
C21_Witness ==
    /\ limiter.kind = "bucket"
    /\ hist.issued > 0
    /\ limiter.last_refill > 0
    /\ limiter.tokens < period
    /\ exec.pc = "loop"

\* C22: behind a rate limiter of `rate` requests per minute every snapshot the
\* aggregator thread emits has rpm <= rate * 1.05, where rpm is
\* 60 * len(request_timestamps) / dynamic_window as _dump computes it
C22_RpmWithinRate ==
    [][ /\ emitter.pc = "dump" /\ emitter'.pc = "slide"
        /\ limiter.kind = "bucket"
        /\ Len(agg.request_timestamps) > 0
        => 60 * Len(agg.request_timestamps) * 100
              <= limiter.rate * 105 * dynamic_window(agg, now) ]_vars

\* C23: in every state of a run the number of workers in flight is at most
\* the configured max concurrency
C23_InFlightWithinConcurrency ==
    Cardinality({w \in Workers : workers[w].pc = "calling"}) <= exec.max_concurrency

\* a run with fewer clients than worker slots has all its clients in flight
C23_Witness ==
    /\ exec.max_concurrency < Cardinality(Workers)
    /\ Cardinality({w \in Workers : workers[w].pc = "calling"}) = exec.max_concurrency
    /\ exec.completed > 0

\* the bounds of the run as the claims state them
RequestsBoundMet == exec.max_requests # None /\ exec.completed >= exec.max_requests
DurationBoundMet == exec.max_duration # None /\ now - exec.start >= exec.max_duration

\* the step starts the termination of the run
Terminates == exec.pc \in {"loop", "sleep"} /\ exec'.pc = "cancel"

\* the step neither starts nor completes a request and lets no time pass
NoProgress == hist' = hist /\ workers' = workers /\ now' = now

\* C24: in "or" mode the run terminates only when completed >= max_requests or
\* elapsed >= max_duration (a clause whose bound is unset being ignored) or on
\* cancellation from outside, and once one of them holds it starts no worker
\* and does nothing but terminate; with no bound it ends only by cancellation
C24_OrEndsAtFirstBound ==
    [][ exec.mode = "or" /\ exec.pc \in {"loop", "sleep"} =>
          /\ Terminates => RequestsBoundMet \/ DurationBoundMet \/ exec.signalled
          /\ RequestsBoundMet \/ DurationBoundMet => Terminates \/ NoProgress
          /\ exec.max_requests = None /\ exec.max_duration = None /\ Terminates
               => exec.signalled ]_vars

\* an "or" run with both bounds has ended at its duration, short of its requests
C24_Witness ==
    /\ exec.mode = "or"
    /\ exec.pc = "returned"
    /\ ~exec.signalled
    /\ exec.max_requests # None
    /\ exec.completed < exec.max_requests
    /\ exec.completed > 0

\* C25: when an "or" run with max_requests and no duration bound returns,
\* exactly max_requests requests have been completed and aggregated, whatever
\* the concurrency
C25_ExactlyMaxRequests ==
    ( /\ exec.mode = "or"
      /\ exec.max_requests # None
      /\ exec.max_duration = None
      /\ ~exec.signalled
      /\ exec.pc = "returned" )
    => /\ exec.completed = exec.max_requests
       /\ hist.aggregated = exec.max_requests
       /\ agg.total_requests_count = exec.max_requests

\* such a run has returned after it cancelled a worker in flight
C25_Witness ==
    /\ exec.mode = "or"
    /\ exec.max_requests # None
    /\ exec.max_duration = None
    /\ ~exec.signalled
    /\ exec.pc = "returned"
    /\ \E w \in Workers : workers[w].pc = "cancelled"

\* C26: in "and" mode with both bounds the run does not terminate before both
\* completed >= max_requests and elapsed >= max_duration hold, admits workers
\* until then, and does nothing but terminate once both hold
C26_AndEndsAtLastBound ==
    [][ ( /\ exec.mode = "and"
          /\ exec.max_requests # None
          /\ exec.max_duration # None
          /\ exec.pc \in {"loop", "sleep"} ) =>
          /\ Terminates /\ ~exec.signalled => RequestsBoundMet /\ DurationBoundMet
          /\ RequestsBoundMet /\ DurationBoundMet => Terminates \/ NoProgress
          /\ ( /\ ~(RequestsBoundMet /\ DurationBoundMet)
               /\ exec.pc = "loop"
               /\ ~exec.signalled
               /\ hist.issued < MaxRequests
               /\ Cardinality({w \in Workers : workers[w].pc = "calling"})
                    < exec.max_concurrency )
             => ENABLED (\E w \in Workers : Admit(w)) ]_vars

\* an "and" run has reached its requests first, has gone on issuing and has
\* returned only at its duration
C26_Witness ==
    /\ exec.mode = "and"
    /\ exec.max_requests # None
    /\ exec.max_duration # None
    /\ ~exec.signalled
    /\ exec.pc = "returned"
    /\ hist.issued > exec.max_requests

TerminationOrder == <<"cancel", "await", "callback", "return">>

\* C28: the termination cancels the workers, awaits them, invokes the finish
\* callback exactly once and returns, in this order; no worker is started once
\* the run-end condition is met, and no worker is in flight or aggregates a
\* record once the finish callback is invoked
C28_TerminationInOrder ==
    [][ /\ exec.events = SubSeq(TerminationOrder, 1, Len(exec.events))
        /\ out.raw = Cardinality({i \in DOMAIN exec.events : exec.events[i] = "callback"})
        /\ exec.pc = "returned" => exec.events = TerminationOrder
        /\ exec.pc \notin {"idle", "loop", "sleep"} => hist'.issued = hist.issued
        /\ exec.pc \in {"loop", "sleep"} /\ RunEndMet(exec, now) => hist'.issued = hist.issued
        /\ out'.raw # out.raw => \A w \in Workers : workers[w].pc # "calling"
        /\ out.raw > 0 => hist'.aggregated = hist.aggregated ]_vars

\* a run has returned after a termination that cancelled a worker
C28_Witness ==
    /\ exec.pc = "returned"
    /\ out.raw = 1
    /\ hist.aggregated > 0
    /\ \E w \in Workers : workers[w].pc = "cancelled"

---------------------------------------------------------------------------
(* Properties of the reader, the request body and the retries *)

\* the token count of a record, an unset count being read as zero
TokensCounted == IF stats.generated_tokens = None THEN 0 ELSE stats.generated_tokens

\* C31: after a 200 stream is read, generated_tokens equals the number of data:
\* lines of that stream, before its [DONE] line, that carried a delta with
\* non-empty content; other lines add nothing
C31_TokensAreContentLines ==
    StreamCompleted => TokensCounted = posts.last.content

\* C35: the record and the body of a call that was retried by the backoff wrapper
\* describe its final attempt only: one anti-cache prefix on the body, no token
\* counted and no first-token time stamped before the final POST was answered,
\* and no output element from an earlier attempt
C35_RecordDescribesFinalAttempt ==
    Returned =>
        /\ body.prefixes = 1
        /\ TokensCounted = posts.last.content
        /\ stats.first_token_time # None => /\ posts.last.tr # None
                                            /\ stats.first_token_time >= posts.last.tr
                                            /\ posts.last.status = 200
        /\ stats.output_content # <<>> => posts.last.status = 200

\* the message contents a POST sends
WireMessages == BodyMessages(body, source)

\* C32: with prevent_server_caching false the message contents sent on the wire
\* are exactly those the messages generator produced: the client prepends its
\* prefix only when server-cache prevention is enabled
C32_WireIsWhatSourceProduced ==
    (pc = "post" /\ ~source.prevent_server_caching) => WireMessages = body.produced

\* C34: issuing requests never modifies the message lists the generator caches
C34_CachedMessagesUnchanged ==
    source.cached = MessagesGenerator(source.kind, source.prevent_server_caching).cached

\* C33: behind a token bucket every worker start is a step in which backoff()
\* returned zero and took one token; while the run loop sleeps for a delay no
\* worker starts, and the sleep itself takes no token; so the workers started
\* never exceed the tokens taken
C33_StartsTakeTokens ==
    [][ limiter.kind = "bucket" =>
          /\ hist.issued <= limiter.taken
          /\ hist'.issued <= limiter'.taken
          /\ hist'.issued = hist.issued + 1 =>
                /\ exec.pc = "loop"
                /\ limiter'.taken = limiter.taken + 1
                /\ limiter'.tokens <= limiter.rate * period - period
          /\ exec.pc = "sleep" => hist'.issued = hist.issued
          /\ exec.pc = "sleep" /\ exec'.pc = "loop" => limiter' = limiter ]_vars

\* two workers were started from a bucket that was empty at first, each after
\* a sleep
C33_Witness ==
    /\ limiter.kind = "bucket"
    /\ limiter.taken = 2
    /\ hist.issued = 2
    /\ limiter.tokens = 0
    /\ limiter.last_refill > 0

C37_DivisorPositive ==
    ( /\ emitter.pc = "dump" \/ main.pc = "dump"
      /\ Len(agg.request_timestamps) > 0 )
    => Min(now - agg.start_time, window_duration) > 0

\* C38: however run() of the aggregator thread and stop() of the caller
\* interleave after start(), stop() finds the termination event created and
\* sets it, and does not fail because run() has not executed yet
C38_StopFindsEvent ==
    [][ main.pc \in {"ran", "stopped"} /\ main'.pc # main.pc =>
          /\ agg.terminate # "unset"
          /\ agg'.terminate = "set"
          /\ main'.pc = "stop" ]_vars

\* C39: every request a worker recorded with record_new_request has been
\* passed to aggregate_request, once, by the time the final snapshot is
\* emitted, also when the run ended while it was in flight: the final snapshot
\* shows no request in processing and as many requests as were started
C39_StartedRequestsAggregated ==
    out.final >= 1 =>
        /\ hist.aggregated = hist.issued
        /\ agg.processing_requests_count = 0
        /\ agg.total_requests_count = hist.issued

============================================================================
